---- MODULE Spec2Model ----
(***************************************************************************)
(* Model of the mutatest mutation trial process: the clean trial, the      *)
(* sample of mutation targets, the per-location mutation trials with the   *)
(* running modes and the timeout cap, and the __pycache__ that carries the *)
(* mutants.  The tutorial's example package (a.py, b.py) is the input.     *)
(***************************************************************************)
EXTENDS Integers, Sequences, FiniteSets, TLC

VARIABLES pc,             \* position of the controller in the trial process
          mode,           \* --mode: "f", "s", "d" or "sd"
          nlocations,     \* --nlocations
          nocov,          \* --nocov
          timeout_factor, \* --timeout_factor, in tenths (50 is 5.0)
          source,         \* the durable source files: text, mtime, size
          cache,          \* the __pycache__ slot of every source file
          clean_trials,   \* return code and run time of the clean trials, in order
          sample,         \* the sampled locations, in draw order
          loc_idx,        \* index in sample of the current target location
          mutant_operations, \* mutations not yet tried at the current location
          mutant,         \* the mutant of the trial in flight
          proc,           \* how the test command of the trial in flight ended
          results,        \* the list of MutantTrialResult
          testcmd,        \* the test command: the exit codes it can return
                          \* and the times it can need to finish
          rseed,          \* --rseed, or NoSeed
          random_state,   \* the state of the random number generator
          whitelist,      \* --whitelist: category codes
          blacklist,      \* --blacklist: category codes
          coverage_file,  \* whether a .coverage file exists
          genome,         \* a Genome used directly: source file, filter codes
          ret,            \* what the last call on the Genome gave back
          exception,      \* --exception: the survivor tolerance, or NoException
          ggrp            \* a GenomeGroup: the Genome of every key

vars == <<pc, mode, nlocations, nocov, timeout_factor, source, cache,
          clean_trials, sample, loc_idx, mutant_operations, mutant, proc,
          results, testcmd, rseed, random_state, whitelist, blacklist,
          coverage_file, genome, ret, exception, ggrp>>

\* the arguments of a run
ctl == <<mode, nlocations, nocov, timeout_factor, testcmd, rseed, whitelist,
         blacklist, coverage_file, exception>>

\* the Genome of the API is not part of a run of the trial process
api == <<genome, ret, ggrp>>

\* no --exception argument: no survivor tolerance
NoException == -1

\* GenomeGroup(): no keys
EmptyGroup == [p \in {} |-> p]

----------------------------------------------------------------------------
(* Bounds *)

MaxN == 2        \* largest --nlocations tried
MaxT0 == 2       \* longest clean trial, in seconds
MaxDur == 11     \* longest run of the test command, in seconds
MaxCode == 2     \* largest exit code of the test command
MaxSeed == 2     \* largest --rseed tried
MaxX == 2        \* largest --exception tried

----------------------------------------------------------------------------
(* The example package and the mutation catalog *)

Files == {"a.py", "b.py"}

LocAdd == [file |-> "a.py", ast_class |-> "BinOp", lineno |-> 6,
           col_offset |-> 11, op_type |-> "Add"]
LocGt == [file |-> "a.py", ast_class |-> "Compare", lineno |-> 10,
          col_offset |-> 11, op_type |-> "Gt"]
LocIs == [file |-> "b.py", ast_class |-> "CompareIs", lineno |-> 6,
          col_offset |-> 11, op_type |-> "Is"]
NoLoc == [file |-> "", ast_class |-> "", lineno |-> 0,
          col_offset |-> 0, op_type |-> ""]

\* a slice with a positive upper bound, x[0:2], outside the example package
LocSlice == [file |-> "slices.py", ast_class |-> "SliceRC", lineno |-> 1,
             col_offset |-> 0, op_type |-> "Slice_UPosToZero"]

\* Genome.targets of every file of the example package
Targets == {LocAdd, LocGt, LocIs}

\* lines of each file that the .coverage file marks as covered
CoveredLines(f) == IF f = "a.py" THEN {6} ELSE {6}

\* Genome.covered_targets
CoveredTargets == {t \in Targets : t.lineno \in CoveredLines(t.file)}

\* the members of a mutation category; BinOp and Compare are cut down to the
\* members the example run substitutes (Div, FloorDiv, Pow and Eq, NotEq,
\* LtE, GtE are left out to keep the trial tree small)
CategoryMembers(c) ==
    CASE c = "BinOp" -> {"Add", "Sub", "Mult", "Mod"}
      [] c = "Compare" -> {"Gt", "Lt"}
      [] c = "CompareIs" -> {"Is", "IsNot"}
      [] c = "SliceUS" -> {"Slice_Unbounded", "Slice_UnboundedLower",
                           "Slice_UnboundedUpper"}
      [] c = "SliceRC" -> {"Slice_UNegToZero", "Slice_UPosToZero"}
      [] OTHER -> {}

\* replacements that include the operation the target holds
get_mutations_with_original(t) == CategoryMembers(t.ast_class)

\* the mutations that may replace the operation at a target: the other
\* members of its category; a "ToZero" slice operation remains the same
\* operation, with updated values
get_mutations_for_target(t) ==
    IF t.ast_class = "SliceRC" THEN {t.op_type}
    ELSE CategoryMembers(t.ast_class) \ {t.op_type}

\* the members of a category in the order the catalog lists them
CatalogOrder(c) ==
    CASE c = "BinOp" -> <<"Add", "Mod", "Mult", "Sub">>
      [] c = "Compare" -> <<"Gt", "Lt">>
      [] c = "CompareIs" -> <<"Is", "IsNot">>
      [] OTHER -> <<>>

\* the members of S, a set of members of category c, in catalog order
InCatalogOrder(c, S) == SelectSeq(CatalogOrder(c), LAMBDA o : o \in S)

\* the targets in the order the files and their lines are read
TargetOrder == <<LocAdd, LocGt, LocIs>>

\* the members of S, a set of targets, in that order
InTargetOrder(S) == SelectSeq(TargetOrder, LAMBDA t : t \in S)

\* transformers.CATEGORIES: the two-letter code of every category
CATEGORIES ==
    [AugAssign |-> "aa", BinOp |-> "bn", BinOpBC |-> "bc", BinOpBS |-> "bs",
     BoolOp |-> "bl", Compare |-> "cp", CompareIn |-> "cn",
     CompareIs |-> "cs", If |-> "if", Index |-> "ix", NameConstant |-> "nc",
     SliceUS |-> "su", SliceRC |-> "sr"]

\* CategoryCodeFilter.valid_codes
valid_codes == {CATEGORIES[c] : c \in DOMAIN CATEGORIES}

----------------------------------------------------------------------------
(* The cache and the source files *)

SourceStats == [f \in Files |-> [text |-> "original", mtime |-> 1, size |-> 118]]

Absent == [kind |-> "absent", src_idx |-> NoLoc, mutation |-> "", mtime |-> 0, size |-> 0]
NoMutant == [src_idx |-> NoLoc, mutation |-> ""]
\* the return code of a run that returned none
NoCode == -1
NoProc == [kind |-> "none", returncode |-> NoCode, duration |-> 0]

\* the artifact the interpreter compiles from the unmodified source file
Compiled(fs, f) == [kind |-> "clean", src_idx |-> NoLoc, mutation |-> "",
                    mtime |-> fs.source[f].mtime, size |-> fs.source[f].size]

\* Genome.mutate: the mutant of a copy of the AST, with the source statistics
Mutate(fs, t, op) == [kind |-> "mutant", src_idx |-> t, mutation |-> op,
                      mtime |-> fs.source[t.file].mtime,
                      size |-> fs.source[t.file].size]

\* a write_cache that also writes the mutation into the source file
write_source(fs, t, op) ==
    [fs EXCEPT !.cache[t.file] = Mutate(fs, t, op),
               !.source[t.file].text = op]

\* Mutant.write_cache: the mutant replaces the cache file of its source file
write_cache(fs, t, op) ==
    [fs EXCEPT !.cache[t.file] = Mutate(fs, t, op)]

\* a removal that leaves the cache file in place
keep_cache_files(fs, f) == fs

\* a removal of whatever cache file the source file has
remove_any_cache_files(fs, f) ==
    [fs EXCEPT !.cache[f] = Absent]

\* step 8 of the trial process: the modified cache file is removed
remove_existing_cache_files(fs, f) ==
    IF fs.cache[f].kind = "mutant" THEN [fs EXCEPT !.cache[f] = Absent]
    ELSE fs

\* clean_trial resets the __pycache__ of the source location
reset_cache(fs) ==
    [fs EXCEPT !.cache = [f \in Files |-> Absent]]

\* a run of the test suite imports the package: a file without a cache file
\* is compiled from its source, a cache file with the source statistics of
\* its source file is used as it is
import_package(fs) ==
    [fs EXCEPT !.cache = [f \in Files |->
        IF fs.cache[f].kind = "absent"
           \/ fs.cache[f].mtime # fs.source[f].mtime
           \/ fs.cache[f].size # fs.source[f].size
        THEN Compiled(fs, f) ELSE fs.cache[f]]]

FS == [source |-> source, cache |-> cache]

----------------------------------------------------------------------------
(* Running modes, timeout and trial status *)

Statuses == {"SURVIVED", "DETECTED", "ERROR", "TIMEOUT", "UNKNOWN"}

Modes == {"f", "s", "d", "sd"}

\* running modes that never stop at a location
break_on_never(m) == {}

\* running modes that all stop on survivors only
break_on_survivor(m) == IF m = "f" THEN {} ELSE {"SURVIVED"}

\* the statuses that stop further mutations at a location
break_on(m) ==
    CASE m = "f" -> {}
      [] m = "s" -> {"SURVIVED"}
      [] m = "d" -> {"DETECTED"}
      [] m = "sd" -> {"SURVIVED", "DETECTED"}

DefaultTimeoutFactor == 50

\* the cap of a mutation trial, in tenths of a second: the run time of the
\* first clean trial times the timeout factor
max_runtime(T0, factor) == T0 * factor

\* a timeout that also stops a run that ends exactly at the cap
timed_out_at(d, cap) == d * 10 >= cap

\* the test command is stopped when it runs beyond the cap
timed_out(d, cap) == d * 10 > cap

\* how a run of the test command ends under a cap: d is the time the command
\* needs to finish, rc the code it returns when it does, oserr an unexpected
\* error of the execution itself
run_outcome(d, rc, oserr, cap) ==
    IF oserr THEN [kind |-> "error", returncode |-> NoCode, duration |-> 0]
    ELSE IF timed_out(d, cap)
         THEN [kind |-> "timeout", returncode |-> NoCode, duration |-> d]
         ELSE [kind |-> "exit", returncode |-> rc, duration |-> d]

\* a status that knows the return codes 0 and 1 only
status_one(p) ==
    CASE p.kind = "timeout" -> "TIMEOUT"
      [] p.kind = "error" -> "ERROR"
      [] p.kind = "exit" /\ p.returncode = 0 -> "SURVIVED"
      [] p.kind = "exit" /\ p.returncode = 1 -> "DETECTED"
      [] OTHER -> "UNKNOWN"

\* MutantTrialResult.status
status(p) ==
    CASE p.kind = "timeout" -> "TIMEOUT"
      [] p.kind = "error" -> "ERROR"
      [] p.kind = "exit" /\ p.returncode = 0 -> "SURVIVED"
      [] p.kind = "exit" /\ p.returncode # 0 -> "DETECTED"
      [] OTHER -> "UNKNOWN"

\* a clean trial that passes whatever the test command returns
clean_passes_any(rc) == TRUE

\* a clean trial passes when the test command returns 0
clean_passes(rc) == rc = 0

----------------------------------------------------------------------------
(* Sampling *)

Min(a, b) == IF a < b THEN a ELSE b

\* a filter whose inversion gives back every target
coverage_filter_keep(targets, source_file, invert) ==
    IF invert THEN targets
    ELSE {t \in targets : t.lineno \in CoveredLines(source_file)}

\* CoverageFilter.filter: the targets on the lines of the source file that
\* the .coverage file marks as covered, or the other targets with invert
coverage_filter(targets, source_file, invert) ==
    {t \in targets : (t.lineno \in CoveredLines(source_file)) # invert}

\* CategoryCodeFilter.filter: the targets of the categories with the codes,
\* or the other targets with invert
category_filter(targets, codes, invert) ==
    {t \in targets : (CATEGORIES[t.ast_class] \in codes) # invert}

\* a selection that takes the whitelist and forgets the blacklist
selected_categories_all(wl, bl) == IF wl # {} THEN wl ELSE valid_codes

\* the categories of a run: the whitelist opts in, the blacklist opts out
selected_categories(wl, bl) == IF wl # {} THEN wl ELSE valid_codes \ bl

\* a selection that is always taken
filter_conflict_none(wl, bl) == FALSE

\* a whitelist together with a blacklist is no valid selection
filter_conflict(wl, bl) == wl # {} /\ bl # {}

\* a sample space that takes the covered targets even without a .coverage
\* file, which marks no line
sample_space_strict(nc, cov, codes) ==
    category_filter(IF nc THEN Targets
                    ELSE {t \in CoveredTargets : cov}, codes, FALSE)

\* the sample space: the targets of the selected categories that are covered,
\* or all the targets of the selected categories with --nocov or without a
\* .coverage file
sample_space(nc, cov, codes) ==
    category_filter(IF nc \/ ~cov THEN Targets ELSE CoveredTargets,
                    codes, FALSE)

\* samples in which a location may come back
Samples_repeat(pool, n) == [1..Min(n, Cardinality(pool)) -> pool]

\* the samples of n locations drawn without replacement, in draw order
Samples(pool, n) ==
    LET k == Min(n, Cardinality(pool))
    IN {s \in [1..k -> pool] : \A i, j \in 1..k : i # j => s[i] # s[j]}

----------------------------------------------------------------------------
(* The random number generator *)

NoSeed == -1
\* the state of a generator that was seeded by the system
Entropy == -1
RandMod == 7

\* random.seed
random_seed(s) == IF s = NoSeed THEN Entropy ELSE s % RandMod

\* the state after one draw
random_next(st) == IF st = Entropy THEN Entropy ELSE (3 * st + 1) % RandMod

RECURSIVE random_skip(_, _)
\* the state after k draws
random_skip(st, k) == IF k = 0 THEN st ELSE random_skip(random_next(st), k - 1)

\* a choice that always takes the first member
random_choice_first(st, seq) == {seq[1]}

\* a choice that forgets the state of the generator
random_choice_any(st, seq) == {seq[i] : i \in 1..Len(seq)}

\* random.choice: the members of seq the next draw can give
random_choice(st, seq) ==
    IF st = Entropy THEN {seq[i] : i \in 1..Len(seq)}
    ELSE {seq[(st % Len(seq)) + 1]}

\* seq without its i-th member
RemoveAt(seq, i) == SubSeq(seq, 1, i - 1) \o SubSeq(seq, i + 1, Len(seq))

RECURSIVE seeded_sample(_, _, _)
\* k draws without replacement from seq by a seeded generator
seeded_sample(st, seq, k) ==
    IF k = 0 THEN <<>>
    ELSE LET i == (st % Len(seq)) + 1
         IN <<seq[i]>> \o seeded_sample(random_next(st), RemoveAt(seq, i), k - 1)

\* a sample that can repeat a location
random_sample_repeat(st, seq, n) ==
    LET pool == {seq[i] : i \in 1..Len(seq)}
    IN [1..Min(n, Len(seq)) -> pool]

\* random.sample: the samples of n members of seq, or of all of seq when n
\* exceeds it, that the generator can give
random_sample(st, seq, n) ==
    IF st = Entropy THEN Samples({seq[i] : i \in 1..Len(seq)}, n)
    ELSE {seeded_sample(st, seq, Min(n, Len(seq)))}

----------------------------------------------------------------------------
(* The Genome *)

\* a property of the Genome that is computed when it is first read
NotRead == [read |-> FALSE, value |-> {}]

\* the targets the AST of a source file holds
FileTargets(f) == {t \in Targets : t.file = f}

\* the AST of a source file: the operation at every node that can be mutated
SourceTree(f) == [t \in FileTargets(f) |-> t.op_type]

\* the locations of the nodes of a tree, with the operations they hold
TreeTargets(tree) == {[t EXCEPT !.op_type = tree[t]] : t \in DOMAIN tree}

\* Genome(source_file): no filter codes, nothing read yet
Genome(f) == [source_file |-> f, filter_codes |-> {}, ast |-> SourceTree(f),
              targets |-> NotRead, covered_targets |-> NotRead]

NoGenome == Genome("")

\* a call on the Genome: the set and the operation it was given, the error
\* it raised and what the error lists, or what it returned
NoReturn == [call |-> "", given |-> {}, op |-> "", error |-> "",
             listed |-> {}, value |-> {}, inverted |-> {},
             mutant |-> NoMutant, tree |-> SourceTree(""), status |-> "",
             file |-> ""]

\* the targets of the AST, found at the first read and kept
all_targets(g) ==
    IF g.targets.read THEN g.targets.value ELSE TreeTargets(g.ast)

\* the targets on covered lines, found at the first read and kept
all_covered_targets(g) ==
    IF g.covered_targets.read THEN g.covered_targets.value
    ELSE coverage_filter(all_targets(g), g.source_file, FALSE)

\* the filter codes of the Genome applied to a set of targets
filter_by_codes(T, codes) ==
    IF codes = {} THEN T ELSE category_filter(T, codes, FALSE)

\* Genome.targets: the targets of the source file, of the categories of the
\* filter codes when there are any
genome_targets(g) == filter_by_codes(all_targets(g), g.filter_codes)

\* covered targets that are given whatever the filter codes are
genome_covered_targets_all(g) == all_covered_targets(g)

\* Genome.covered_targets: the targets that the .coverage file covers, of
\* the categories of the filter codes when there are any
genome_covered_targets(g) ==
    filter_by_codes(all_covered_targets(g), g.filter_codes)

\* codes that are taken as they come
invalid_codes_none(codes) == {}

\* the codes that are not category codes
invalid_codes(codes) == codes \ valid_codes

\* the Genome after its filter codes are set: the codes are applied to the
\* targets and covered targets at every read
set_filter_codes(g, codes) == [g EXCEPT !.filter_codes = codes]

\* the Genome after its source file is set: the AST and the targets are
\* found again in the new file; the covered targets that were read before
\* are kept, as are the coverage file and the filter codes
set_source_file(g, f) ==
    [g EXCEPT !.source_file = f, !.ast = SourceTree(f), !.targets = NotRead]

\* a mutation that is applied to the AST of the Genome itself
mutate_in_place(g, t, op) == [g EXCEPT !.ast[t] = op]

\* Genome.mutate works on a copy of the AST: the Genome is not modified
mutate_copy(g, t, op) == g

\* the AST of a mutant: the tree with the operation at the target replaced
mutate_tree(tree, t, op) == [tree EXCEPT ![t] = op]

\* every operation is taken as a valid mutation
valid_mutation_any(t, op) == TRUE

\* a valid mutation of a target is a member of the category of the target
valid_mutation(t, op) == op \in CategoryMembers(t.ast_class)

\* the codes a filter_codes assignment is tried with
CodeInputs == {"bn", "cp", "cs", "asdf"}

\* the operations a mutation is tried with
OpInputs == {"Add", "Sub", "Mult", "Mod", "Gt", "Lt", "Is", "IsNot"}

\* genome.filter_codes = codes: a code that is no category code raises a
\* ValueError that lists the valid codes
SetFilterCodes ==
    /\ \E codes \in SUBSET CodeInputs :
          IF invalid_codes(codes) # {}
          THEN /\ ret' = [NoReturn EXCEPT !.call = "filter_codes",
                              !.error = "ValueError",
                              !.given = codes,
                              !.listed = valid_codes]
               /\ UNCHANGED genome
          ELSE /\ genome' = set_filter_codes(genome, codes)
               /\ ret' = [NoReturn EXCEPT !.call = "filter_codes",
                              !.given = codes]
    /\ UNCHANGED <<pc, ctl, ggrp, random_state, source, cache, clean_trials, sample,
                   loc_idx, mutant_operations, mutant, proc, results>>

\* genome.targets: found at the first read, then kept
ReadTargets ==
    /\ genome' = [genome EXCEPT
                     !.targets = [read |-> TRUE, value |-> all_targets(genome)]]
    /\ ret' = [NoReturn EXCEPT !.call = "targets",
                  !.value = genome_targets(genome)]
    /\ UNCHANGED <<pc, ctl, ggrp, random_state, source, cache, clean_trials, sample,
                   loc_idx, mutant_operations, mutant, proc, results>>

\* genome.covered_targets: found at the first read, then kept
ReadCoveredTargets ==
    /\ genome' = [genome EXCEPT
                     !.covered_targets =
                         [read |-> TRUE, value |-> all_covered_targets(genome)]]
    /\ ret' = [NoReturn EXCEPT !.call = "covered_targets",
                  !.value = genome_covered_targets(genome)]
    /\ UNCHANGED <<pc, ctl, ggrp, random_state, source, cache, clean_trials, sample,
                   loc_idx, mutant_operations, mutant, proc, results>>

\* cov_filter.filter(targets, source_file) and the same with invert=True
ApplyCoverageFilter ==
    /\ \E T \in SUBSET Targets, f \in Files :
          ret' = [NoReturn EXCEPT !.call = "coverage_filter",
                     !.given = T,
                     !.value = coverage_filter(T, f, FALSE),
                     !.inverted = coverage_filter(T, f, TRUE)]
    /\ UNCHANGED <<pc, ctl, ggrp, random_state, source, cache, clean_trials, sample,
                   loc_idx, mutant_operations, mutant, proc, results, genome>>

\* genome.mutate(target, op): a Mutant of a copy of the AST, or a
\* MutationException that lists the valid mutations of the category
GenomeMutate ==
    /\ \E t \in FileTargets(genome.source_file), op \in OpInputs :
          IF valid_mutation(t, op)
          THEN /\ ret' = [NoReturn EXCEPT !.call = "mutate", !.given = {t},
                              !.op = op,
                              !.mutant = [src_idx |-> t, mutation |-> op],
                              !.tree = mutate_tree(genome.ast, t, op)]
               /\ genome' = mutate_copy(genome, t, op)
          ELSE /\ ret' = [NoReturn EXCEPT !.call = "mutate", !.given = {t},
                              !.op = op,
                              !.error = "MutationException",
                              !.listed = CategoryMembers(t.ast_class)]
               /\ UNCHANGED genome
    /\ UNCHANGED <<pc, ctl, ggrp, random_state, source, cache, clean_trials, sample,
                   loc_idx, mutant_operations, mutant, proc, results>>

\* genome.source_file = f
SetSourceFile ==
    /\ \E f \in Files :
          /\ genome' = set_source_file(genome, f)
          /\ ret' = [NoReturn EXCEPT !.call = "source_file"]
    /\ UNCHANGED <<pc, ctl, ggrp, random_state, source, cache, clean_trials, sample,
                   loc_idx, mutant_operations, mutant, proc, results>>

\* mutant.write_cache() on the Mutant that mutate returned
MutantWriteCache ==
    /\ ret.call = "mutate"
    /\ ret.mutant # NoMutant
    /\ LET fs == write_cache(FS, ret.mutant.src_idx, ret.mutant.mutation)
       IN source' = fs.source /\ cache' = fs.cache
    /\ ret' = [NoReturn EXCEPT !.call = "write_cache", !.mutant = ret.mutant]
    /\ UNCHANGED <<pc, ctl, ggrp, random_state, clean_trials, sample, loc_idx,
                   mutant_operations, mutant, proc, results, genome>>

\* a single trial that leaves the mutant in the cache
create_mutation_run_trial_keep(fs, t, op) ==
    import_package(write_cache(fs, t, op))

\* run.create_mutation_run_trial: steps 5 to 8 of the trial process for one
\* mutant: the cache file is written, the test suite imports the package,
\* the modified cache file is removed
create_mutation_run_trial(fs, t, op) ==
    remove_existing_cache_files(import_package(write_cache(fs, t, op)), t.file)

\* run.create_mutation_run_trial(genome, target, op, test_cmds) with a
\* member of the category of the target: the status of the trial is returned
CreateMutationRunTrial ==
    /\ \E t \in FileTargets(genome.source_file), rc \in testcmd.codes :
       \E op \in CategoryMembers(t.ast_class) :
          LET fs == create_mutation_run_trial(FS, t, op)
              p == [kind |-> "exit", returncode |-> rc, duration |-> 1]
          IN /\ source' = fs.source
             /\ cache' = fs.cache
             /\ ret' = [NoReturn EXCEPT
                           !.call = "create_mutation_run_trial",
                           !.given = {t}, !.op = op,
                           !.mutant = [src_idx |-> t, mutation |-> op],
                           !.file = t.file, !.status = status(p)]
    /\ UNCHANGED <<pc, ctl, ggrp, random_state, clean_trials, sample, loc_idx,
                   mutant_operations, mutant, proc, results, genome>>

\* the removal of the modified cache file of a source file, called on its
\* own: it raises nothing, whatever the cache holds
RemoveCacheFiles ==
    /\ \E f \in Files :
          LET fs == remove_existing_cache_files(FS, f)
          IN /\ source' = fs.source
             /\ cache' = fs.cache
             /\ ret' = [NoReturn EXCEPT
                           !.call = "remove_existing_cache_files",
                           !.file = f]
    /\ UNCHANGED <<pc, ctl, ggrp, random_state, clean_trials, sample, loc_idx,
                   mutant_operations, mutant, proc, results, genome>>

\* the targets the mutations are asked for: those of the example package
\* and the slice
CatalogTargets == Targets \cup {LocSlice}

\* get_mutations_for_target(target)
GetMutationsForTarget ==
    /\ \E t \in CatalogTargets :
          ret' = [NoReturn EXCEPT !.call = "get_mutations_for_target",
                     !.given = {t}, !.listed = get_mutations_for_target(t)]
    /\ UNCHANGED <<pc, ctl, ggrp, random_state, source, cache, clean_trials, sample,
                   loc_idx, mutant_operations, mutant, proc, results, genome>>

----------------------------------------------------------------------------
(* The GenomeGroup *)

\* the folder of the example package, as it is given and as a full path
Folders == {"example", "/cwd/example"}

\* the .py files of the folder
FolderFiles == {"a.py", "b.py", "test_ab.py"}

\* the paths of the files of the folder, in both spellings
GroupPaths == [folder : Folders, name : FolderFiles]

\* Path.resolve(): the full path of a file
resolve(p) == [p EXCEPT !.folder = "/cwd/example"]

is_test_file(n) == n = "test_ab.py"

\* the filter codes the Genomes of a group are given
GroupCodes == {{}, {"cs"}}

\* the Genome of a source file in a group
GroupGenome(p, codes) == [source_file |-> p, filter_codes |-> codes]

\* an exclusion that compares the paths as they are given
excluded_as_given(p, exclude) == p \in exclude

\* add_folder compares the full resolved paths of the files with those of
\* the files to exclude
excluded(p, exclude) == resolve(p) \in {resolve(e) : e \in exclude}

\* the files of the folder that add_folder adds, under the folder as given
folder_files(d, exclude, ignore_test_files) ==
    {p \in GroupPaths : /\ p.folder = d
                        /\ ~excluded(p, exclude)
                        /\ ~(ignore_test_files /\ is_test_file(p.name))}

\* GenomeGroup.add_genome: the key is the source file of the Genome
add_genome(grp, g) ==
    [p \in DOMAIN grp \cup {g.source_file} |->
        IF p = g.source_file THEN g ELSE grp[p]]

\* GenomeGroup.add_folder: a Genome for every file that is added
add_folder(grp, d, exclude, ignore_test_files) ==
    LET new == folder_files(d, exclude, ignore_test_files)
    IN [p \in DOMAIN grp \cup new |->
           IF p \in new THEN GroupGenome(p, {}) ELSE grp[p]]

\* GenomeGroup.pop(key)
pop(grp, k) == [p \in DOMAIN grp \ {k} |-> grp[p]]

\* GenomeGroup.set_filter: the filter codes of every Genome of the group
set_filter(grp, codes) ==
    [p \in DOMAIN grp |-> [grp[p] EXCEPT !.filter_codes = codes]]

\* the files to exclude that add_folder is tried with
ExcludeInputs == SUBSET {[folder |-> "example", name |-> "b.py"],
                         [folder |-> "/cwd/example", name |-> "b.py"]}

AddFolder ==
    /\ \E d \in Folders, exclude \in ExcludeInputs, itf \in BOOLEAN :
          /\ ggrp' = add_folder(ggrp, d, exclude, itf)
          /\ ret' = [NoReturn EXCEPT !.call = "add_folder", !.file = d,
                        !.given = exclude,
                        !.op = IF itf THEN "ignore_test_files" ELSE "",
                        !.value = folder_files(d, exclude, itf)]
    /\ UNCHANGED <<pc, ctl, genome, random_state, source, cache, clean_trials,
                   sample, loc_idx, mutant_operations, mutant, proc, results>>

AddGenome ==
    /\ \E p \in GroupPaths, codes \in GroupCodes :
          /\ ggrp' = add_genome(ggrp, GroupGenome(p, codes))
          /\ ret' = [NoReturn EXCEPT !.call = "add_genome", !.value = {p}]
    /\ UNCHANGED <<pc, ctl, genome, random_state, source, cache, clean_trials,
                   sample, loc_idx, mutant_operations, mutant, proc, results>>

PopGenome ==
    /\ \E k \in DOMAIN ggrp :
          /\ ggrp' = pop(ggrp, k)
          /\ ret' = [NoReturn EXCEPT !.call = "pop", !.value = {k}]
    /\ UNCHANGED <<pc, ctl, genome, random_state, source, cache, clean_trials,
                   sample, loc_idx, mutant_operations, mutant, proc, results>>

SetFilter ==
    /\ \E codes \in GroupCodes :
          /\ ggrp' = set_filter(ggrp, codes)
          /\ ret' = [NoReturn EXCEPT !.call = "set_filter", !.given = codes]
    /\ UNCHANGED <<pc, ctl, genome, random_state, source, cache, clean_trials,
                   sample, loc_idx, mutant_operations, mutant, proc, results>>

----------------------------------------------------------------------------
(* The trial process *)

\* a test command that passes or fails, and finishes at once or hangs
PlainCommand == [codes |-> {0, 1}, durations |-> {1, MaxDur}]

\* a test command with every exit code and every run time
AnyCommand == [codes |-> 0..MaxCode, durations |-> 1..MaxDur]

\* the cache before the run: every file compiled or not
StartCaches == [Files -> {Absent, Compiled([source |-> SourceStats], "a.py")}]

Init ==
    /\ pc = "init"
    /\ mode \in Modes
    /\ nlocations \in 1..MaxN
    /\ nocov = FALSE
    /\ timeout_factor = DefaultTimeoutFactor
    /\ testcmd = PlainCommand
    /\ source = SourceStats
    /\ cache \in StartCaches
    /\ clean_trials = <<>>
    /\ sample = <<>>
    /\ loc_idx = 0
    /\ mutant_operations = {}
    /\ mutant = NoMutant
    /\ proc = NoProc
    /\ results = <<>>
    /\ rseed = NoSeed
    /\ random_state = Entropy
    /\ whitelist = {}
    /\ blacklist = {}
    /\ coverage_file = TRUE
    /\ genome = NoGenome
    /\ ret = NoReturn
    /\ exception = NoException
    /\ ggrp = EmptyGroup

\* clean_trial, first part: the cache files of the source location are removed
StartCleanTrial(from, to) ==
    /\ pc = from
    /\ pc' = to
    /\ LET fs == reset_cache(FS)
       IN source' = fs.source /\ cache' = fs.cache
    /\ UNCHANGED <<ctl, api, random_state, clean_trials, sample, loc_idx, mutant_operations,
                   mutant, proc, results>>

\* a run that goes back to sampling after every clean trial
after_clean_trial_again(n) == "sampling"

\* the position after the n-th clean trial has passed
after_clean_trial(n) == IF n = 1 THEN "sampling" ELSE "done"

\* the first clean trial: the test command runs on the unmodified package;
\* a failed clean trial ends the run
FinishCleanBaseline ==
    /\ pc = "clean_baseline"
    /\ \E rc \in testcmd.codes, t \in 1..MaxT0 :
          /\ clean_trials' = Append(clean_trials,
                                    [returncode |-> rc, runtime |-> t])
          /\ pc' = IF clean_passes(rc)
                   THEN after_clean_trial(Len(clean_trials) + 1)
                   ELSE "baseline_failed"
    /\ LET fs == import_package(FS)
       IN source' = fs.source /\ cache' = fs.cache
    /\ UNCHANGED <<ctl, api, random_state, sample, loc_idx, mutant_operations, mutant, proc,
                   results>>

\* a run that ends after the last location without a clean trial
next_location_done(i, smp) == IF i <= Len(smp) THEN "mutate" ELSE "done"

\* the position when location i of the sample is the next one
next_location(i, smp) == IF i <= Len(smp) THEN "mutate" ELSE "clean_final"

\* step 4: the categories are selected, the sample space is filtered and a
\* random sample of the identified locations is taken
Sampling ==
    /\ pc = "sampling"
    /\ IF filter_conflict(whitelist, blacklist)
       THEN /\ pc' = "filter_error"
            /\ UNCHANGED <<sample, loc_idx, mutant_operations, random_state>>
       ELSE LET st == random_seed(rseed)
                pool == sample_space(nocov, coverage_file,
                            selected_categories(whitelist, blacklist))
            IN \E s \in random_sample(st, InTargetOrder(pool), nlocations) :
                  /\ sample' = s
                  /\ random_state' = random_skip(st, Len(s))
                  /\ loc_idx' = 1
                  /\ mutant_operations' =
                        IF Len(s) >= 1 THEN get_mutations_for_target(s[1])
                        ELSE {}
                  /\ pc' = next_location(1, s)
    /\ UNCHANGED <<ctl, api, source, cache, clean_trials, mutant, proc, results>>

\* step 5: apply a mutation at the location and write the cache file
CreateMutant ==
    /\ pc = "mutate"
    /\ \E op \in random_choice(random_state,
                 InCatalogOrder(sample[loc_idx].ast_class, mutant_operations)) :
          /\ mutant_operations' = mutant_operations \ {op}
          /\ random_state' = random_next(random_state)
          /\ mutant' = [src_idx |-> sample[loc_idx], mutation |-> op]
          /\ LET fs == write_cache(FS, sample[loc_idx], op)
             IN source' = fs.source /\ cache' = fs.cache
    /\ pc' = "run"
    /\ UNCHANGED <<ctl, api, clean_trials, sample, loc_idx, proc, results>>

\* step 6: run the test suite under the timeout cap
RunTests ==
    /\ pc = "run"
    /\ \E d \in testcmd.durations, rc \in testcmd.codes, oserr \in BOOLEAN :
          LET p == run_outcome(d, rc, oserr,
                      max_runtime(clean_trials[1].runtime, timeout_factor))
              fs == IF p.kind = "exit" THEN import_package(FS) ELSE FS
          IN /\ proc' = p
             /\ source' = fs.source
             /\ cache' = fs.cache
    /\ pc' = "evict"
    /\ UNCHANGED <<ctl, api, random_state, clean_trials, sample, loc_idx, mutant_operations,
                   mutant, results>>

\* a cleanup that is left out when the test command did not exit
trial_cleanup_exit_only(fs, f, p) ==
    IF p.kind = "exit" THEN remove_existing_cache_files(fs, f) ELSE fs

\* the cache after a trial whose test command ended as p: the cache file of
\* the mutant is removed however the command ended
trial_cleanup(fs, f, p) == remove_existing_cache_files(fs, f)

\* step 8: remove the modified cache file
RemoveCache ==
    /\ pc = "evict"
    /\ LET fs == trial_cleanup(FS, mutant.src_idx.file, proc)
       IN source' = fs.source /\ cache' = fs.cache
    /\ pc' = "record"
    /\ UNCHANGED <<ctl, api, random_state, clean_trials, sample, loc_idx, mutant_operations,
                   mutant, proc, results>>

\* a location that is also left at the first timeout or error
continue_location_ok(m, st, ops) ==
    st \notin (break_on(m) \cup {"TIMEOUT", "ERROR"}) /\ ops # {}

\* whether the trials at the current location go on after a result
continue_location(m, st, ops) == st \notin break_on(m) /\ ops # {}

\* a run that stops at the first timeout or error
after_trial_abort(m, st, ops, i, smp) ==
    IF st \in {"TIMEOUT", "ERROR"} THEN "aborted"
    ELSE IF st \notin break_on(m) /\ ops # {} THEN "mutate"
    ELSE IF i + 1 <= Len(smp) THEN "mutate" ELSE "clean_final"

\* the position after a result at location i: the next mutation at the
\* location, the next location, or the clean trial at the end
after_trial(m, st, ops, i, smp) ==
    IF continue_location(m, st, ops) THEN "mutate"
    ELSE next_location(i + 1, smp)

\* step 7 and 9: the result is recorded, and the running mode decides
\* between the next mutation at the location and the next location
RecordResult ==
    /\ pc = "record"
    /\ results' = Append(results, [src_idx |-> mutant.src_idx,
                                    mutation |-> mutant.mutation,
                                    return_code |-> proc.returncode,
                                    status |-> status(proc)])
    /\ pc' = after_trial(mode, status(proc), mutant_operations, loc_idx, sample)
    /\ IF continue_location(mode, status(proc), mutant_operations)
       THEN UNCHANGED <<loc_idx, mutant_operations>>
       ELSE /\ loc_idx' = loc_idx + 1
            /\ mutant_operations' =
                  IF loc_idx + 1 <= Len(sample)
                  THEN get_mutations_for_target(sample[loc_idx + 1]) ELSE {}
    /\ mutant' = NoMutant
    /\ proc' = NoProc
    /\ UNCHANGED <<ctl, api, random_state, source, cache, clean_trials, sample>>

\* the count of surviving mutants in the results
survivors(res) ==
    Cardinality({i \in 1..Len(res) : res[i].status = "SURVIVED"})

\* a tolerance that is breached only when it is exceeded
tolerance_exceeded(x, n) == x # NoException /\ n > x

\* the survivor tolerance is breached when the count of survivors meets or
\* exceeds it
tolerance_breached(x, n) == x # NoException /\ n >= x

\* how the run ends after the trials: with a SurvivingMutantException when
\* the tolerance is breached
end_of_run(to, x, res) ==
    IF to = "done" /\ tolerance_breached(x, survivors(res))
    THEN "survivor_exception" ELSE to

\* the clean trial at the end of the mutation trials: the unmodified package
\* gives the result of the first clean trial
FinishCleanFinal ==
    /\ pc = "clean_final_run"
    /\ \E t \in 1..MaxT0 :
          clean_trials' = Append(clean_trials,
              [returncode |-> clean_trials[1].returncode, runtime |-> t])
    /\ LET fs == import_package(FS)
       IN source' = fs.source /\ cache' = fs.cache
    /\ pc' = end_of_run(after_clean_trial(Len(clean_trials) + 1), exception,
                        results)
    /\ UNCHANGED <<ctl, api, random_state, sample, loc_idx, mutant_operations, mutant, proc,
                   results>>

\* the positions at which the run has ended
EndPcs == {"done", "baseline_failed", "filter_error", "survivor_exception",
           "killed"}

\* the process is killed before the trials complete: the cache stays as it
\* is at that point
Interrupt ==
    /\ pc \notin EndPcs
    /\ pc' = "killed"
    /\ UNCHANGED <<ctl, api, random_state, source, cache, clean_trials, sample,
                   loc_idx, mutant_operations, mutant, proc, results>>

Next ==
    \/ StartCleanTrial("init", "clean_baseline")
    \/ FinishCleanBaseline
    \/ Sampling
    \/ CreateMutant
    \/ RunTests
    \/ RemoveCache
    \/ RecordResult
    \/ StartCleanTrial("clean_final", "clean_final_run")
    \/ FinishCleanFinal

Spec == Init /\ [][Next]_vars

\* the controller is one serial process that takes its next step
FairSpec == Spec /\ WF_vars(Next)

\* runs at one location with any test command and several timeout factors
InitAnyCommand ==
    /\ pc = "init"
    /\ mode \in Modes
    /\ nlocations = 1
    /\ nocov = FALSE
    /\ timeout_factor \in {15, DefaultTimeoutFactor}
    /\ testcmd = AnyCommand
    /\ source = SourceStats
    /\ cache = [f \in Files |-> Absent]
    /\ clean_trials = <<>>
    /\ sample = <<>>
    /\ loc_idx = 0
    /\ mutant_operations = {}
    /\ mutant = NoMutant
    /\ proc = NoProc
    /\ results = <<>>
    /\ rseed = NoSeed
    /\ random_state = Entropy
    /\ whitelist = {}
    /\ blacklist = {}
    /\ coverage_file = TRUE
    /\ genome = NoGenome
    /\ ret = NoReturn
    /\ exception = NoException
    /\ ggrp = EmptyGroup

SpecAnyCommand == InitAnyCommand /\ [][Next]_vars

\* a test command that finishes at once
QuickCommand == [codes |-> {0, 1}, durations |-> {1}]

\* the category selections tried on the command line
CodeSelections == {{}, {"bn"}, {"cp"}, {"bn", "cs"}}

\* runs in mode sd with and without a .coverage file, with --nocov and with
\* category selections
InitFilters ==
    /\ pc = "init"
    /\ mode = "sd"
    /\ nlocations \in 1..MaxN
    /\ nocov \in BOOLEAN
    /\ timeout_factor = DefaultTimeoutFactor
    /\ testcmd = QuickCommand
    /\ source = SourceStats
    /\ cache = [f \in Files |-> Absent]
    /\ clean_trials = <<>>
    /\ sample = <<>>
    /\ loc_idx = 0
    /\ mutant_operations = {}
    /\ mutant = NoMutant
    /\ proc = NoProc
    /\ results = <<>>
    /\ rseed = NoSeed
    /\ random_state = Entropy
    /\ whitelist \in CodeSelections
    /\ blacklist \in CodeSelections
    /\ coverage_file \in BOOLEAN
    /\ genome = NoGenome
    /\ ret = NoReturn
    /\ exception = NoException
    /\ ggrp = EmptyGroup

SpecFilters == InitFilters /\ [][Next]_vars

\* runs with a random seed
InitSeeded ==
    /\ pc = "init"
    /\ mode \in Modes
    /\ nlocations \in 1..MaxN
    /\ nocov \in BOOLEAN
    /\ timeout_factor = DefaultTimeoutFactor
    /\ testcmd = PlainCommand
    /\ source = SourceStats
    /\ cache = [f \in Files |-> Absent]
    /\ clean_trials = <<>>
    /\ sample = <<>>
    /\ loc_idx = 0
    /\ mutant_operations = {}
    /\ mutant = NoMutant
    /\ proc = NoProc
    /\ results = <<>>
    /\ rseed \in 0..MaxSeed
    /\ random_state = Entropy
    /\ whitelist = {}
    /\ blacklist = {}
    /\ coverage_file = TRUE
    /\ genome = NoGenome
    /\ ret = NoReturn
    /\ exception = NoException
    /\ ggrp = EmptyGroup

SpecSeeded == InitSeeded /\ [][Next]_vars

\* a Genome of a file of the example package, used directly
InitGenome ==
    /\ pc = "init"
    /\ mode = "s"
    /\ nlocations = 1
    /\ nocov = FALSE
    /\ timeout_factor = DefaultTimeoutFactor
    /\ testcmd = QuickCommand
    /\ source = SourceStats
    /\ cache = [f \in Files |-> Compiled([source |-> SourceStats], f)]
    /\ clean_trials = <<>>
    /\ sample = <<>>
    /\ loc_idx = 0
    /\ mutant_operations = {}
    /\ mutant = NoMutant
    /\ proc = NoProc
    /\ results = <<>>
    /\ rseed = NoSeed
    /\ random_state = Entropy
    /\ whitelist = {}
    /\ blacklist = {}
    /\ coverage_file = TRUE
    /\ \E f \in Files : genome = Genome(f)
    /\ ret = NoReturn
    /\ exception = NoException
    /\ ggrp = EmptyGroup

NextGenome ==
    \/ SetFilterCodes
    \/ ReadTargets
    \/ ReadCoveredTargets
    \/ ApplyCoverageFilter
    \/ GenomeMutate
    \/ MutantWriteCache

SpecGenome == InitGenome /\ [][NextGenome]_vars

\* single mutants and single trials of a Genome, with the cache files of the
\* package compiled or not at the start
InitTrialApi ==
    /\ pc = "init"
    /\ mode = "s"
    /\ nlocations = 1
    /\ nocov = FALSE
    /\ timeout_factor = DefaultTimeoutFactor
    /\ testcmd = QuickCommand
    /\ source = SourceStats
    /\ cache \in StartCaches
    /\ clean_trials = <<>>
    /\ sample = <<>>
    /\ loc_idx = 0
    /\ mutant_operations = {}
    /\ mutant = NoMutant
    /\ proc = NoProc
    /\ results = <<>>
    /\ rseed = NoSeed
    /\ random_state = Entropy
    /\ whitelist = {}
    /\ blacklist = {}
    /\ coverage_file = TRUE
    /\ \E f \in Files : genome = Genome(f)
    /\ ret = NoReturn
    /\ exception = NoException
    /\ ggrp = EmptyGroup

NextTrialApi ==
    \/ GenomeMutate
    \/ MutantWriteCache
    \/ CreateMutationRunTrial
    \/ RemoveCacheFiles
    \/ GetMutationsForTarget

SpecTrialApi == InitTrialApi /\ [][NextTrialApi]_vars

\* runs with a survivor tolerance
InitException ==
    /\ pc = "init"
    /\ mode \in Modes
    /\ nlocations \in 1..MaxN
    /\ nocov = FALSE
    /\ timeout_factor = DefaultTimeoutFactor
    /\ testcmd = QuickCommand
    /\ source = SourceStats
    /\ cache = [f \in Files |-> Absent]
    /\ clean_trials = <<>>
    /\ sample = <<>>
    /\ loc_idx = 0
    /\ mutant_operations = {}
    /\ mutant = NoMutant
    /\ proc = NoProc
    /\ results = <<>>
    /\ rseed = NoSeed
    /\ random_state = Entropy
    /\ whitelist = {}
    /\ blacklist = {}
    /\ coverage_file = TRUE
    /\ genome = NoGenome
    /\ ret = NoReturn
    /\ exception \in {NoException} \cup 1..MaxX
    /\ ggrp = EmptyGroup

SpecException == InitException /\ [][Next]_vars

\* runs that can be killed at any point
NextInterrupt ==
    \/ Next
    \/ Interrupt

SpecInterrupt == Init /\ [][NextInterrupt]_vars

\* a GenomeGroup that starts without keys
NextGroup ==
    \/ AddFolder
    \/ AddGenome
    \/ PopGenome
    \/ SetFilter

SpecGroup == InitGenome /\ [][NextGroup]_vars

\* the Genome with its source file set to another file between the calls
NextGenomeFile ==
    \/ NextGenome
    \/ SetSourceFile

SpecGenomeFile == InitGenome /\ [][NextGenomeFile]_vars

----------------------------------------------------------------------------
(* Properties *)

TrialPcs == {"run", "evict", "record"}

MutantCached == \E f \in Files : cache[f].kind = "mutant"

ResultsAt(t) == {i \in 1..Len(results) : results[i].src_idx = t}

MutationsTriedAt(t) == {results[i].mutation : i \in ResultsAt(t)}

\* the statuses at which a running mode leaves a location
StopSet(m) == {st \in {"SURVIVED"} : m \in {"s", "sd"}}
              \cup {st \in {"DETECTED"} : m \in {"d", "sd"}}

\* a step taken once the clean trial at the end has started
AfterFinalStarted ==
    pc \in {"clean_final_run", "done"}
        => (results' = results /\ pc' \in {"clean_final_run", "done"}
            /\ (\A f \in Files : cache'[f].kind # "mutant"))

\* C1: the first clean trial is complete before any mutation trial starts
\* and before any mutant is in the cache, the clean trial at the end starts
\* only when no trial is in flight and every sampled location is finished,
\* and once it has started no result is added and no mutant is written.
C1_CleanTrialsAroundMutations ==
    /\ [](/\ pc \in {"sampling", "mutate", "run", "evict", "record",
                     "clean_final", "clean_final_run"}
                => Len(clean_trials) = 1 /\ clean_trials[1].returncode = 0
          /\ (MutantCached \/ mutant # NoMutant) => pc \in TrialPcs
          /\ results # <<>> => Len(clean_trials) >= 1
          /\ pc \in {"clean_final", "clean_final_run", "done"}
                => loc_idx > Len(sample) /\ proc = NoProc
          /\ Len(clean_trials) = 2 => pc = "done")
    /\ [][AfterFinalStarted]_vars

C1_Witness ==
    /\ pc = "done"
    /\ Len(clean_trials) = 2
    /\ Len(sample) = 2
    /\ Len(results) >= 3

\* C2: when the test command of the first clean trial returns a non-zero
\* code the run stops there: no sample, no mutant, no mutated cache file
\* and no trial result, in that state and ever after.
C2_BaselineFailureAborts ==
    (Len(clean_trials) >= 1 /\ clean_trials[1].returncode # 0)
        => /\ pc = "baseline_failed"
           /\ Len(clean_trials) = 1
           /\ sample = <<>>
           /\ mutant = NoMutant
           /\ ~MutantCached
           /\ results = <<>>

C2_Witness ==
    /\ pc = "baseline_failed"
    /\ clean_trials[1].returncode = 1
    /\ \A f \in Files : cache[f].kind = "clean"

\* C3: the mutated cache file of a trial is removed before the result of the
\* trial is recorded, however the test command ended: a mutant is in the
\* cache only while its own trial runs, and no recorded result has its
\* mutant in the cache.
C3_EvictedBeforeRecorded ==
    /\ pc \notin {"run", "evict"} => ~MutantCached
    /\ \A i \in 1..Len(results) :
          LET c == cache[results[i].src_idx.file]
          IN ~(c.kind = "mutant" /\ c.src_idx = results[i].src_idx
               /\ c.mutation = results[i].mutation)

C3_Witness ==
    /\ pc = "run"
    /\ \E i \in 1..Len(results) : results[i].status = "TIMEOUT"
    /\ \E i \in 1..Len(results) : results[i].status = "ERROR"
    /\ \E i \in 1..Len(results) : results[i].status = "DETECTED"

\* a step that writes a mutant changes the cache file of its source file only
WritesOneCacheFile ==
    pc = "mutate" =>
        (\A f \in Files : cache'[f] # cache[f] => f = mutant'.src_idx.file)

\* C4: the source files keep their text, modification time and size in every
\* state, and writing a mutant changes the cache file of the mutated source
\* file only.
C4_SourceUntouched ==
    /\ [](source = SourceStats)
    /\ [][WritesOneCacheFile]_vars

C4_Witness ==
    /\ pc = "record"
    /\ Len(results) >= 1
    /\ cache[mutant.src_idx.file].kind = "absent"
    /\ source[mutant.src_idx.file].text = "original"

\* the step that records a result gives it the status of the way the test
\* command ended
RecordsStatusOfOutcome ==
    (pc = "record" /\ pc' # "record") =>
        LET r == results'[Len(results')]
        IN /\ (proc.kind = "exit" /\ proc.returncode = 0) => r.status = "SURVIVED"
           /\ (proc.kind = "exit" /\ proc.returncode # 0) => r.status = "DETECTED"
           /\ proc.kind = "timeout" => r.status = "TIMEOUT"
           /\ proc.kind = "error" => r.status = "ERROR"
           /\ r.status # "UNKNOWN"

\* C5: the recorded status is SURVIVED for return code 0, DETECTED for every
\* other return code, TIMEOUT for a stopped run and ERROR for a run that
\* failed to execute.
C5_StatusByOutcome ==
    [][RecordsStatusOfOutcome]_vars

C5_Witness ==
    \E i \in 1..Len(results) :
        results[i].return_code = 2 /\ results[i].status = "DETECTED"

\* C6: a result whose status is in the stop set of the running mode is the
\* last result of its location: no later result and no trial in flight is at
\* that location, and the controller has moved past it.
C6_StopAtLocation ==
    /\ \A i, j \in 1..Len(results) :
          (i < j /\ results[i].src_idx = results[j].src_idx)
              => results[i].status \notin StopSet(mode)
    /\ \A i \in 1..Len(results) :
          results[i].status \in StopSet(mode)
              => /\ mutant.src_idx # results[i].src_idx
                 /\ \E k \in 1..Len(sample) :
                       k < loc_idx /\ sample[k] = results[i].src_idx

C6_Witness ==
    /\ pc = "done"
    /\ mode = "s"
    /\ sample = <<LocAdd>>
    /\ Len(results) = 2
    /\ results[1].mutation = "Sub" /\ results[1].status = "DETECTED"
    /\ results[2].mutation = "Mult" /\ results[2].status = "SURVIVED"
    /\ "Mod" \notin MutationsTriedAt(LocAdd)

RecordsTimeoutOrError ==
    (pc = "record" /\ pc' # "record" /\ proc.kind \in {"timeout", "error"})
        => (/\ Len(results') = Len(results) + 1
            /\ results'[Len(results')].status \in {"TIMEOUT", "ERROR"}
            /\ results'[Len(results')].mutation = mutant.mutation
            /\ pc' \in {"mutate", "clean_final"})

RecordsTimeoutBeyondCap ==
    (pc = "record" /\ pc' # "record") =>
        (results'[Len(results')].status = "TIMEOUT"
            <=> proc.duration * 10 > clean_trials[1].runtime * timeout_factor)

\* C10: a trial is recorded as TIMEOUT exactly when its test command needs
\* more than the run time of the first clean trial times the timeout factor.
C10_TimeoutCap ==
    [][RecordsTimeoutBeyondCap]_vars

C10_Witness ==
    /\ pc = "record"
    /\ clean_trials[1].runtime = 2
    /\ timeout_factor = 50
    /\ proc.duration = 11
    /\ proc.kind = "timeout"

\* the sample has been drawn
Sampled == pc \in {"mutate", "run", "evict", "record", "clean_final",
                   "clean_final_run", "done"}

\* the code of the category of a target
CodeOf(t) == CATEGORIES[t.ast_class]

\* the targets a run with the given arguments can mutate
CandidatePool ==
    {t \in Targets :
        /\ (~nocov /\ coverage_file) => t.lineno \in CoveredLines(t.file)
        /\ whitelist # {} => CodeOf(t) \in whitelist
        /\ whitelist = {} => CodeOf(t) \notin blacklist}

SampleSet == {sample[i] : i \in 1..Len(sample)}

\* C11: the sampled locations are pairwise distinct members of the sample
\* space; there are nlocations of them, or all of the sample space when
\* nlocations exceeds its size.
C11_SampleSize ==
    Sampled =>
        LET pool == sample_space(nocov, coverage_file,
                        selected_categories(whitelist, blacklist))
        IN /\ \A i, j \in 1..Len(sample) : i # j => sample[i] # sample[j]
           /\ SampleSet \subseteq pool
           /\ nlocations > Cardinality(pool) => SampleSet = pool
           /\ nlocations <= Cardinality(pool) => Len(sample) = nlocations

C11_Witness ==
    /\ pc = "done"
    /\ nlocations = 2
    /\ whitelist = {"bn"}
    /\ nocov
    /\ sample = <<LocAdd>>
    /\ Len(results) >= 1

\* C12: every sampled location and every mutated location is a target of a
\* selected category, on a covered line unless --nocov is given; when
\* nlocations is not below the number of such targets the sample is all of
\* them.
C12_PoolIsFilteredTargets ==
    /\ Sampled =>
          /\ SampleSet \subseteq CandidatePool
          /\ nlocations >= Cardinality(CandidatePool)
                => SampleSet = CandidatePool
    /\ \A i \in 1..Len(results) : results[i].src_idx \in CandidatePool
    /\ mutant # NoMutant => mutant.src_idx \in CandidatePool
    /\ \A f \in Files :
          cache[f].kind = "mutant" => cache[f].src_idx \in CandidatePool

C12_Witness ==
    /\ pc = "done"
    /\ ~nocov
    /\ coverage_file
    /\ nlocations = 2
    /\ whitelist = {}
    /\ blacklist = {"bn"}
    /\ sample = <<LocIs>>
    /\ Len(results) = 1

\* the state of the generator after k draws since it was seeded with rseed
GeneratorAfter(k) == random_skip(rseed % RandMod, k)

\* the member of seq that the draw after k draws gives
DrawnAfter(k, seq) == seq[(GeneratorAfter(k) % Len(seq)) + 1]

\* the i-th trial of the run: a recorded one, or the one in flight
Trial(i) == IF i <= Len(results)
            THEN [src_idx |-> results[i].src_idx,
                  mutation |-> results[i].mutation]
            ELSE mutant

Trials == Len(results) + (IF mutant = NoMutant THEN 0 ELSE 1)

\* the mutations left at the location of the i-th trial before that trial
LeftBefore(i) ==
    get_mutations_for_target(Trial(i).src_idx)
        \ {Trial(j).mutation : j \in {k \in 1..(i - 1) :
                                        Trial(k).src_idx = Trial(i).src_idx}}

PlaceInSample(t) == CHOOSE k \in 1..Len(sample) : sample[k] = t

\* the location of the i-th trial, given the results of the trials before
ExpectedLocation(i) ==
    IF i = 1 THEN sample[1]
    ELSE LET r == results[i - 1]
         IN IF r.status \notin StopSet(mode)
               /\ LeftBefore(i - 1) \ {r.mutation} # {}
            THEN r.src_idx
            ELSE sample[PlaceInSample(r.src_idx) + 1]

\* C13: in a run with a random seed the sample and the trials are a function
\* of the seed, the arguments and the results of the trials before: the
\* i-th sampled location is the draw of the seeded generator from the
\* locations not yet drawn, the i-th trial is at the location the running
\* mode gives after the results before it, with the mutation that the next
\* draw of the generator gives from the mutations left at the location.
C13_SeededRunRepeats ==
    (rseed # NoSeed /\ Sampled) =>
        /\ \A i \in 1..Len(sample) :
              sample[i] = DrawnAfter(i - 1,
                  InTargetOrder(CandidatePool \ {sample[j] : j \in 1..(i - 1)}))
        /\ \A i \in 1..Trials :
              /\ Trial(i).src_idx = ExpectedLocation(i)
              /\ Trial(i).mutation =
                    DrawnAfter(Len(sample) + i - 1,
                        InCatalogOrder(Trial(i).src_idx.ast_class, LeftBefore(i)))

C13_Witness ==
    /\ pc = "done"
    /\ rseed = 1
    /\ mode = "d"
    /\ Len(sample) = 2
    /\ Len(results) >= 4
    /\ results[1].status = "SURVIVED"

\* the place of a mutation in the catalog of its category
PlaceInCatalog(c, op) ==
    CHOOSE k \in 1..Len(CatalogOrder(c)) : CatalogOrder(c)[k] = op

\* C14 as stated: the mutations at a location are tried in catalog order.
C14_CatalogOrder ==
    \A i, j \in 1..Len(results) :
        (i < j /\ results[i].src_idx = results[j].src_idx)
            => PlaceInCatalog(results[i].src_idx.ast_class, results[i].mutation)
                 < PlaceInCatalog(results[j].src_idx.ast_class,
                                  results[j].mutation)

\* the step that creates a mutant takes the mutation the generator draws
MutationDrawn ==
    (pc = "mutate" /\ pc' = "run") =>
        LET seq == InCatalogOrder(sample[loc_idx].ast_class, mutant_operations)
        IN /\ mutant'.src_idx = sample[loc_idx]
           /\ mutant'.mutation = seq[(random_state % Len(seq)) + 1]
           /\ mutant'.mutation \in get_mutations_for_target(sample[loc_idx])
           /\ mutant'.mutation \notin MutationsTriedAt(sample[loc_idx])
           /\ mutant_operations' = mutant_operations \ {mutant'.mutation}

\* C14: the mutation of every trial is drawn by the random number generator
\* from the legal mutations not yet tried at the location, so that the order
\* at a location follows the seed and not the catalog.
C14_OrderDrawnAtRandom ==
    [][MutationDrawn]_vars

C14_Witness ==
    /\ rseed # NoSeed
    /\ \E i, j \in 1..Len(results) :
          /\ i < j
          /\ results[i].src_idx = LocAdd
          /\ results[j].src_idx = LocAdd
          /\ results[i].mutation = "Sub"
          /\ results[j].mutation = "Mult"

\* a run with a whitelist and a blacklist stops where the sample is drawn
RejectsBothLists ==
    (pc = "sampling" /\ whitelist # {} /\ blacklist # {})
        => (pc' = "filter_error" /\ sample' = <<>> /\ results' = <<>>)

\* C15: a run with a whitelist and a blacklist ends in a filter error where
\* the categories are selected: it draws no sample, creates no mutant,
\* writes no mutated cache file and records no result.
C15_BothListsRejected ==
    /\ []((whitelist # {} /\ blacklist # {}) =>
             /\ pc \in {"init", "clean_baseline", "baseline_failed",
                         "sampling", "filter_error"}
             /\ sample = <<>>
             /\ mutant = NoMutant
             /\ ~MutantCached
             /\ results = <<>>)
    /\ [](pc = "filter_error" => (whitelist # {} /\ blacklist # {}))
    /\ [][RejectsBothLists]_vars

C15_Witness ==
    /\ pc = "filter_error"
    /\ whitelist = {"bn"}
    /\ blacklist = {"cp"}
    /\ Len(clean_trials) = 1
    /\ sample = <<>>

\* what a read of the targets of a Genome gives
TargetsOf(g) == genome_targets(g)

\* what a read of the covered targets of a Genome gives
CoveredTargetsOf(g) == genome_covered_targets(g)

\* the target a call of mutate was given
GivenTarget(r) == CHOOSE t \in r.given : TRUE

\* a call of mutate with an operation outside the category of the target
RejectsIllegalMutation ==
    (ret'.call = "mutate" /\ ret' # ret
     /\ ret'.op \notin CategoryMembers(GivenTarget(ret').ast_class))
        => /\ ret'.error = "MutationException"
           /\ ret'.listed = CategoryMembers(GivenTarget(ret').ast_class)
           /\ ret'.mutant = NoMutant
           /\ genome' = genome
           /\ cache' = cache
           /\ source' = source

\* C16: mutate with an operation that is not a member of the category of the
\* target raises a MutationException that lists the members of the
\* category; it returns no Mutant and leaves the Genome, the cache and the
\* source files as they were, and no Mutant with such an operation is ever
\* returned or written to the cache.
C16_IllegalMutationRejected ==
    /\ [][RejectsIllegalMutation]_vars
    /\ [](ret.mutant # NoMutant =>
             ret.mutant.mutation
                 \in CategoryMembers(ret.mutant.src_idx.ast_class))
    /\ [](\A f \in Files : cache[f].kind = "mutant" =>
             cache[f].mutation \in CategoryMembers(cache[f].src_idx.ast_class))

C16_Witness ==
    /\ ret.call = "mutate"
    /\ ret.given = {LocAdd}
    /\ ret.op = "IsNot"
    /\ ret.error = "MutationException"
    /\ ret.listed = {"Add", "Sub", "Mult", "Mod"}
    /\ cache["a.py"].kind = "mutant"

\* an assignment of filter codes with a code that is no category code
RejectsInvalidCodes ==
    (ret'.call = "filter_codes" /\ ret' # ret
     /\ ~(ret'.given \subseteq valid_codes))
        => /\ ret'.error = "ValueError"
           /\ ret'.listed = {"aa", "bn", "bc", "bs", "bl", "cp", "cn", "cs",
                             "if", "ix", "nc", "su", "sr"}
           /\ genome'.filter_codes = genome.filter_codes
           /\ TargetsOf(genome') = TargetsOf(genome)
           /\ CoveredTargetsOf(genome') = CoveredTargetsOf(genome)

TargetsWithCodes(g) ==
    {t \in Targets :
        /\ t.file = g.source_file
        /\ g.filter_codes # {} => CATEGORIES[t.ast_class] \in g.filter_codes}

\* C18: a read of targets gives the targets of the source file whose
\* category code is in the filter codes, or all of them when there are no
\* filter codes, and a read of covered_targets gives those of them on
\* covered lines, whatever codes were set and read before.
C18_FilterCodesSelectTargets ==
    /\ ret.call = "targets" => ret.value = TargetsWithCodes(genome)
    /\ ret.call = "covered_targets" =>
          ret.value = {t \in TargetsWithCodes(genome) :
                          t.lineno \in CoveredLines(genome.source_file)}
    /\ ret.call = "filter_codes" /\ ret.error = "" =>
          genome.filter_codes = ret.given

C18_Witness ==
    /\ genome.source_file = "a.py"
    /\ genome.filter_codes = {}
    /\ ret.call = "targets"
    /\ ret.value = {LocAdd, LocGt}
    /\ genome.covered_targets = [read |-> TRUE, value |-> {LocAdd}]

\* C19: the targets a coverage filter gives and the targets it gives with
\* invert are disjoint and together they are the targets it was given.
C19_CoverageFilterPartition ==
    ret.call = "coverage_filter" =>
        /\ ret.value \cap ret.inverted = {}
        /\ ret.value \cup ret.inverted = ret.given

C19_Witness ==
    /\ ret.call = "coverage_filter"
    /\ ret.given = Targets
    /\ ret.value = {LocAdd, LocIs}
    /\ ret.inverted = {LocGt}

\* the targets of the selected categories, covered or not
SelectedTargets ==
    {t \in Targets : /\ whitelist # {} => CodeOf(t) \in whitelist
                     /\ whitelist = {} => CodeOf(t) \notin blacklist}

\* without a .coverage file the sample is drawn from all selected targets
SamplesWithoutCoverage ==
    (pc = "sampling" /\ ~coverage_file /\ ~(whitelist # {} /\ blacklist # {})
     /\ SelectedTargets # {})
        => (pc' = "mutate" /\ sample' # <<>>)

\* C20: without a .coverage file the sample is drawn from all the targets
\* of the selected categories, as with --nocov: it has nlocations of them or
\* all of them, it is empty only when no target is selected, and the run
\* goes on to the mutation trials.
C20_NoCoverageData ==
    /\ []((~coverage_file /\ Sampled) =>
             /\ SampleSet \subseteq SelectedTargets
             /\ Len(sample) = Min(nlocations, Cardinality(SelectedTargets))
             /\ SelectedTargets # {} => results # <<>> \/ mutant # NoMutant
                                          \/ pc = "mutate")
    /\ [][SamplesWithoutCoverage]_vars

C20_Witness ==
    /\ pc = "done"
    /\ ~coverage_file
    /\ ~nocov
    /\ whitelist = {}
    /\ blacklist = {}
    /\ sample = <<LocGt, LocIs>>
    /\ Len(results) = 2
    /\ results[1].src_idx = LocGt

\* the targets and covered targets read from a Genome are locations of the
\* tree of its source file, the covered ones among the targets
ReadsOfSourceFile ==
    /\ ret.call \in {"targets", "covered_targets"} =>
          ret.value \subseteq {t \in Targets : t.file = genome.source_file}
    /\ genome_covered_targets(genome) \subseteq genome_targets(genome)

\* an assignment of the source file keeps the filter codes and the coverage
SourceFileKeepsFilters ==
    (ret'.call = "source_file" /\ genome' # genome)
        => /\ genome'.filter_codes = genome.filter_codes
           /\ coverage_file' = coverage_file

\* C21: after the source file of a Genome is set, every element that
\* targets and covered_targets give is a location of the tree of the new
\* file, the covered targets are among the targets, and the coverage file
\* and the filter codes are what they were.
C21_SourceFileResets ==
    /\ []ReadsOfSourceFile
    /\ [][SourceFileKeepsFilters]_vars

\* C22: after any calls of mutate the AST and the targets of the Genome are
\* those of its source file, and the tree of every mutant holds the given
\* operation at the target and the operation of the source file at every
\* other node, whatever mutants were made and written before.
C22_MutateLeavesGenome ==
    /\ genome.ast = [t \in {u \in Targets : u.file = genome.source_file}
                        |-> t.op_type]
    /\ genome.targets.read =>
          genome.targets.value = {u \in Targets : u.file = genome.source_file}
    /\ (ret.call = "mutate" /\ ret.error = "") =>
          /\ DOMAIN ret.tree = {u \in Targets : u.file = genome.source_file}
          /\ \A n \in DOMAIN ret.tree :
                ret.tree[n] = IF n \in ret.given THEN ret.op ELSE n.op_type

C22_Witness ==
    /\ ret.call = "mutate"
    /\ ret.given = {LocGt}
    /\ ret.op = "Lt"
    /\ ret.tree[LocGt] = "Lt"
    /\ ret.tree[LocAdd] = "Add"
    /\ cache["a.py"].kind = "mutant"
    /\ cache["a.py"].src_idx = LocAdd
    /\ cache["a.py"].mutation = "Sub"
    /\ genome.targets.read

\* a single trial leaves the cache file of the mutated source file as it
\* found it, when it found none or the compiled one
TrialRestoresCache ==
    (ret'.call = "create_mutation_run_trial"
     /\ cache[ret'.file].kind \in {"absent", "clean"})
        => cache'[ret'.file] = cache[ret'.file]

\* C23 as stated: injecting a mutant and evicting it leaves the cache slot
\* of the file as it was before the injection: absent when there was no
\* cache file, the compiled cache file when there was one.
C23_EvictionRestoresSlot == [][TrialRestoresCache]_vars

\* a single trial leaves no cache file for the mutated source file; the
\* other files are compiled when they had no cache file and keep the one
\* they had; the source files are not changed
TrialRemovesCache ==
    ret'.call = "create_mutation_run_trial"
        => /\ cache'[ret'.file] = Absent
           /\ \A f \in Files \ {ret'.file} :
                 cache'[f] = IF cache[f] = Absent
                             THEN [kind |-> "clean", src_idx |-> NoLoc,
                                   mutation |-> "",
                                   mtime |-> source[f].mtime,
                                   size |-> source[f].size]
                             ELSE cache[f]
           /\ source' = source

\* C23: injecting a mutant and evicting it leaves no cache file for the
\* source file, whether it had none or a compiled one before; a compiled
\* cache file comes back when the package is next imported, compiled from
\* the unchanged source file.
C23_EvictionLeavesSlotAbsent ==
    /\ [][TrialRemovesCache]_vars
    /\ [](\A f \in Files : source[f] = SourceStats[f])

C23_Witness ==
    /\ ret.call = "create_mutation_run_trial"
    /\ ret.given = {LocAdd}
    /\ ret.op = "Mult"
    /\ ret.status = "SURVIVED"
    /\ cache["a.py"] = Absent
    /\ cache["b.py"].kind = "clean"

\* a removal of the modified cache file on its own
RemovalIsTotal ==
    ret'.call = "remove_existing_cache_files"
        => /\ ret'.error = ""
           /\ source' = source
           /\ \A f \in Files :
                 cache'[f] = IF f = ret'.file /\ cache[f].kind = "mutant"
                             THEN Absent ELSE cache[f]
           /\ (ret.call = "remove_existing_cache_files"
               /\ ret.file = ret'.file) => cache' = cache

C25_ReplacementDiffers ==
    /\ ret.call = "get_mutations_for_target" =>
          /\ ret.listed # {}
          /\ \A t \in ret.given :
                /\ ret.listed \subseteq CategoryMembers(t.ast_class)
                /\ t.op_type \notin ret.listed
    /\ ret.mutant # NoMutant =>
          /\ ret.mutant.mutation
                \in CategoryMembers(ret.mutant.src_idx.ast_class)
          /\ ret.mutant.mutation # ret.mutant.src_idx.op_type

\* C25: the replacements of a target are members of its category and there
\* is at least one; they differ from the operation the target holds, except
\* for a "ToZero" slice operation, which is replaced by the same operation
\* with updated values; mutate and a single trial take any member of the
\* category, the operation the target holds included.
C25_ReplacementInCategory ==
    /\ ret.call = "get_mutations_for_target" =>
          /\ ret.listed # {}
          /\ \A t \in ret.given :
                /\ ret.listed \subseteq CategoryMembers(t.ast_class)
                /\ t.ast_class # "SliceRC" => t.op_type \notin ret.listed
                /\ t.ast_class = "SliceRC" => ret.listed = {t.op_type}
    /\ ret.mutant # NoMutant =>
          ret.mutant.mutation
              \in CategoryMembers(ret.mutant.src_idx.ast_class)

C25_Witness ==
    /\ ret.call = "get_mutations_for_target"
    /\ ret.given = {LocSlice}
    /\ ret.listed = {"Slice_UPosToZero"}
    /\ cache["a.py"].kind = "mutant"
    /\ cache["a.py"].src_idx = LocAdd
    /\ cache["a.py"].mutation = "Add"

\* C26 as stated: every key of a GenomeGroup is a resolved path, it is the
\* source file of its Genome, and no two entries are of the same source
\* file.
C26_KeysResolved ==
    \A k \in DOMAIN ggrp :
        /\ k = resolve(k)
        /\ ggrp[k].source_file = k
        /\ \A k2 \in DOMAIN ggrp : resolve(k2) = resolve(k) => k2 = k

\* C26: every key of a GenomeGroup is the source file of its Genome, as the
\* path was given and not resolved; add_folder adds the files of the folder
\* under the folder as given, without the test files when they are ignored
\* and without the files to exclude, which it matches by their full paths,
\* and the other entries stay; pop removes its key only.
C26_KeysAreSourceFiles ==
    /\ \A k \in DOMAIN ggrp : ggrp[k].source_file = k
    /\ ret.call = "add_folder" =>
          /\ ret.value \subseteq DOMAIN ggrp
          /\ ret.value =
                {p \in GroupPaths :
                    /\ p.folder = ret.file
                    /\ p.name \notin {e.name : e \in ret.given}
                    /\ ret.op = "ignore_test_files" => p.name # "test_ab.py"}
    /\ ret.call = "add_genome" => ret.value \subseteq DOMAIN ggrp
    /\ ret.call = "pop" => ret.value \cap DOMAIN ggrp = {}

C26_Witness ==
    /\ ret.call = "add_folder"
    /\ ret.file = "example"
    /\ ret.given = {[folder |-> "/cwd/example", name |-> "b.py"]}
    /\ DOMAIN ggrp = {[folder |-> "example", name |-> "a.py"],
                      [folder |-> "/cwd/example", name |-> "a.py"]}
    /\ ggrp[[folder |-> "/cwd/example", name |-> "a.py"]].filter_codes = {"cs"}

\* the count of results with the status SURVIVED
SurvivedCount ==
    Cardinality({i \in DOMAIN results : results[i].status = "SURVIVED"})

\* C27: with a survivor tolerance the run ends with a
\* SurvivingMutantException, after the trials and the clean trial at the
\* end, exactly when the count of SURVIVED results is the tolerance or more;
\* without a tolerance no run ends with the exception.
C27_ToleranceMetOrExceeded ==
    /\ pc = "survivor_exception" =>
          /\ exception # NoException
          /\ SurvivedCount >= exception
          /\ Len(clean_trials) = 2
          /\ mutant = NoMutant
    /\ pc = "done" => (exception = NoException \/ SurvivedCount < exception)

C27_Witness ==
    /\ pc = "survivor_exception"
    /\ exception = 2
    /\ SurvivedCount = 2
    /\ Len(results) = 3

\* C28: in every state, also after the process is killed, at most one
\* cache file is that of a mutant, and it is the one of the trial in
\* flight; the test command of a trial has ended only for the mutant in
\* flight, and a result is added only when no mutant is in the cache.
C28_OneMutantInCache ==
    /\ Cardinality({f \in Files : cache[f].kind = "mutant"}) <= 1
    /\ \A f \in Files :
          cache[f].kind = "mutant" =>
              /\ cache[f].src_idx = mutant.src_idx
              /\ cache[f].mutation = mutant.mutation
              /\ f = mutant.src_idx.file
    /\ proc # NoProc => mutant # NoMutant
    /\ mutant # NoMutant => (pc \in TrialPcs \/ pc = "killed")

C28_Witness ==
    /\ pc = "killed"
    /\ Cardinality({f \in Files : cache[f].kind = "mutant"}) = 1
    /\ cache["b.py"].kind = "mutant"
    /\ proc.kind = "timeout"
    /\ Len(results) = 1
    /\ results[1].src_idx = LocAdd

\* the count of legal replacements of the locations of a sequence
RECURSIVE LegalTotal(_)
LegalTotal(seq) ==
    IF seq = <<>> THEN 0
    ELSE Cardinality(CategoryMembers(Head(seq).ast_class)
                         \ {Head(seq).op_type})
         + LegalTotal(Tail(seq))

StatusCount(st) ==
    Cardinality({i \in DOMAIN results : results[i].status = st})

\* C30: no location is sampled twice, the results of a location follow one
\* another, no pair of location and replacement has two results, a location
\* has no more results than legal replacements, and the count of results is
\* the sum of the counts of the five statuses.
C30_NoPairTwice ==
    /\ \A i, j \in 1..Len(sample) : i # j => sample[i] # sample[j]
    /\ \A i, j, k \in 1..Len(results) :
          (i < j /\ j < k /\ results[i].src_idx = results[k].src_idx)
              => results[j].src_idx = results[i].src_idx
    /\ \A i, j \in 1..Len(results) :
          (results[i].src_idx = results[j].src_idx
           /\ results[i].mutation = results[j].mutation) => i = j
    /\ \A t \in Targets :
          Cardinality({i \in DOMAIN results : results[i].src_idx = t})
              <= Cardinality(CategoryMembers(t.ast_class) \ {t.op_type})
    /\ Len(results) = StatusCount("DETECTED") + StatusCount("SURVIVED")
                          + StatusCount("ERROR") + StatusCount("TIMEOUT")
                          + StatusCount("UNKNOWN")

C30_Witness ==
    /\ pc = "done"
    /\ sample = <<LocAdd, LocIs>>
    /\ Len(results) = 4
    /\ StatusCount("DETECTED") = 3
    /\ StatusCount("SURVIVED") = 1
    /\ results[3].mutation = "Mult"
    /\ results[3].status = "SURVIVED"

====
